---------------------------- MODULE Spec2Model ----------------------------
(***************************************************************************)
(* Model of the launch countdown display (src/main.py): the main loop      *)
(* that fetches the next launch, the session it renders, the countdown    *)
(* frame loop with its LED regimes, and the idle animation between        *)
(* fetches.                                                                *)
(*                                                                         *)
(* Floats are MicroPython floats of the RP2350 build: IEEE binary32,      *)
(* round to nearest, ties to even.  A non-negative float is the record    *)
(* [w |-> whole part, f |-> fraction in units of 2^-29].                   *)
(***************************************************************************)
EXTENDS Integers, Sequences, FiniteSets, TLC

\* --------------------------------------------------------------- bounds
\* Fetch requests that are answered; the request after them stays in flight.
MaxFetches == 3
\* Fetch requests answered while the network is down (SpecOffline).
MaxOfflineFetches == 4
\* Seconds the clock may advance between the read of line 530 and the read
\* of line 531, summed over one countdown session.
MaxSlip == 1
\* Fetch requests answered in the runs checked for progress (FairSpec).
MaxLiveFetches == 2
\* Fetch requests answered in the long countdown (SpecLong).
MaxLongFetches == 2
\* Largest remaining_seconds of the dense range of first frames (SpecFrame).
MaxRemaining == 130
\* Fetch requests answered after the long run (SpecAged).
MaxAgedFetches == 1

\* ------------------------------------------------------ program constants
NUM_LEDS == 7
MAX_LOG_LINES == 8
IdleTicks == 100
IdleSleep == 5
FrameSleep == 1
WarningThreshold == 1800
SecondsPerDay == 86400
SecondsPerHour == 3600
SecondsPerMinute == 60
WIDTH == 480
HEIGHT == 480

Zones == 0 .. (NUM_LEDS - 1)

\* NEBULA_COLORS, the cyclic palette
NEBULA_COLORS ==
  << <<148, 0, 211>>, <<75, 0, 130>>, <<0, 0, 255>>, <<0, 255, 255>>,
     <<255, 20, 147>>, <<255, 69, 0>>, <<128, 0, 128>> >>

\* len(NEBULA_COLORS)
PaletteLen == Len(NEBULA_COLORS)

\* ------------------------------------------------------------- binary32
FracUnit == 2^29

F32(w, f) == [w |-> w, f |-> f]

F32Zero == F32(0, 0)

\* floor(log2(n)) for 1 <= n < 2^30
Log2Floor(n) == CHOOSE e \in 0 .. 29 : 2^e <= n /\ n < 2^(e + 1)

\* The spacing of binary32 values around w + f/2^29, in units of 2^-29:
\* 2^(e-23) for a value in [2^e, 2^(e+1)).
Ulp(w, f) ==
  IF w >= 1 THEN 2^(Log2Floor(w) + 6)
  ELSE IF f >= 2^24 THEN 2^(Log2Floor(f) - 23)
  ELSE 1

\* Round the exact value w + f/2^29 (0 <= f < 2^29) to binary32.
Round32(w, f) ==
  LET u  == Ulp(w, f)
      q  == f \div u
      r  == f % u
      up == (2 * r > u) \/ (2 * r = u /\ q % 2 = 1)
      g  == IF up THEN (q + 1) * u ELSE q * u
  IN  IF g = FracUnit THEN F32(w + 1, 0) ELSE F32(w, g)

\* a + b in binary32
F32Add(a, b) ==
  LET s == a.f + b.f
  IN  Round32(a.w + b.w + (s \div FracUnit), s % FracUnit)

F32Le(a, b) == a.w < b.w \/ (a.w = b.w /\ a.f <= b.f)

\* float(i) for a small integer i
IntToF32(i) == F32(i, 0)

\* The literal 0.02: nebula_speed (line 134) and the increment of line 591.
nebula_speed == F32(0, 10737418)

\* The literal 0.1 of line 584.
pulse_speed == F32(0, 53687092)

\* nebula_step += 0.02   (lines 169 and 591)
NebulaAdvance(step) == F32Add(step, nebula_speed)

\* pulse_step += 0.1   (line 584)
PulseAdvance(step) == F32Add(step, pulse_speed)

\* Variant: the zone offset is left out of the index.
ColorIndexNoOffset(step, i) == step.w % PaletteLen

\* int((nebula_step + i) % len(NEBULA_COLORS))   (lines 138-141 and 588):
\* the float sum is rounded, the float modulo is exact, int() truncates.
ColorIndex(step, i) == F32Add(step, IntToF32(i)).w % PaletteLen

\* ------------------------------------------------------------ ColorBlend
\* d * f for 0 <= d <= 255 and 0 <= f < 2^29, as whole part and fraction
\* (the product itself does not fit the integers of the checker).
MulFrac(d, f) ==
  LET hi  == d * (f \div 2^15)
      lo  == d * (f % 2^15)
      mid == hi + (lo \div 2^15)
  IN  [ w |-> mid \div 2^14, f |-> (mid % 2^14) * 2^15 + (lo % 2^15) ]

\* The binary32 product d * t of an integer 0 <= d <= 255 and a float t.
F32Scale(d, t) ==
  LET p == MulFrac(d, t.f)
  IN  Round32(d * t.w + p.w, p.f)

\* The binary32 difference a - p of an integer a and a float 0 <= p <= a.
F32Below(a, p) ==
  IF p.f = 0 THEN F32(a - p.w, 0) ELSE Round32(a - p.w - 1, FracUnit - p.f)

\* Variant: the interpolation runs from the second colour to the first.
LerpChannelSwapped(a, b, t) ==
  IF a >= b THEN F32Add(IntToF32(b), F32Scale(a - b, t)).w
  ELSE F32Below(b, F32Scale(b - a, t)).w

\* int(r1 + (r2 - r1) * t)   (lines 125-127 and 155-157)
LerpChannel(a, b, t) ==
  IF b >= a THEN F32Add(IntToF32(a), F32Scale(b - a, t)).w
  ELSE F32Below(a, F32Scale(a - b, t)).w

\* lines 121-128
lerp_color(color1, color2, t) ==
  << LerpChannel(color1[1], color2[1], t),
     LerpChannel(color1[2], color2[2], t),
     LerpChannel(color1[3], color2[3], t) >>

\* math.sin, in thousandths, of an angle rounded to hundredths of a radian
\* (Bhaskara's rational approximation with pi taken as 3.14: 0 at 0 and at
\* pi, exactly 1 at pi/2, -1 at 3pi/2, within 0.01 of the sine for the
\* angles of the first periods).
SinHalfWave(y) == (16000 * (y * (314 - y))) \div (5 * 314 * 314 - 4 * (y * (314 - y)))

SinMilli(x) ==
  LET c == x.w * 100 + (((x.f \div 2^9) * 100 + 2^19) \div 2^20)
      y == c % 628
  IN  IF y <= 314 THEN SinHalfWave(y) ELSE 0 - SinHalfWave(y - 314)

\* i * 0.5   (line 160), exact in binary32
ZoneOffset(i) == F32(i \div 2, (i % 2) * 2^28)

\* Variant: the amplitude exceeds the offset.
BrightnessWide(step, i) == 1000 + (6 * SinMilli(F32Add(step, ZoneOffset(i)))) \div 5

\* 0.5 + 0.5 * math.sin(nebula_step + (i * 0.5))   (line 160), in units of
\* 1/2000
Brightness(step, i) == 1000 + SinMilli(F32Add(step, ZoneOffset(i)))

\* int(r * brightness)   (lines 161-163)
Dimmed(color, bright) ==
  << (color[1] * bright) \div 2000, (color[2] * bright) \div 2000,
     (color[3] * bright) \div 2000 >>

\* int(100 + 100 * math.sin(pulse_step))   (line 581)
RedIntensity(step) == (100000 + 100 * SinMilli(step)) \div 1000

\* alpha = idx_float - idx_int   (line 142): the fraction of the phase
Alpha(step, i) == F32(0, F32Add(step, IntToF32(i)).f)

\* next_idx   (line 145)
NextIndex(idx) == (idx + 1) % PaletteLen

\* NEBULA_COLORS[idx], indexed from 0 as in the source
Stop(idx) == NEBULA_COLORS[idx + 1]

\* ------------------------------------------------------------- calendar
\* utime.mktime((year, month, day, hour, minute, second, 0, 0)), line 357,
\* seconds since 1970-01-01T00:00:00.
DaysFromCivil(y, m, d) ==
  LET yy  == IF m <= 2 THEN y - 1 ELSE y
      era == yy \div 400
      yoe == yy - era * 400
      mp  == IF m > 2 THEN m - 3 ELSE m + 9
      doy == ((153 * mp + 2) \div 5) + d - 1
      doe == yoe * 365 + (yoe \div 4) - (yoe \div 100) + doy
  IN  era * 146097 + doe - 719468

mktime(t) ==
  DaysFromCivil(t[1], t[2], t[3]) * SecondsPerDay
    + t[4] * SecondsPerHour + t[5] * SecondsPerMinute + t[6]

\* utime.localtime(timestamp), as unix_to_iso8601 uses it and as the
\* launch library writes "net": <<year, month, day, hour, minute, second>>.
localtime(ts) ==
  LET days == ts \div SecondsPerDay
      secs == ts % SecondsPerDay
      z    == days + 719468
      era  == z \div 146097
      doe  == z - era * 146097
      yoe  == (doe - (doe \div 1460) + (doe \div 36524) - (doe \div 146096)) \div 365
      doy  == doe - (365 * yoe + (yoe \div 4) - (yoe \div 100))
      mp   == (5 * doy + 2) \div 153
      d    == doy - ((153 * mp + 2) \div 5) + 1
      m    == IF mp < 10 THEN mp + 3 ELSE mp - 9
      y    == yoe + era * 400 + (IF m <= 2 THEN 1 ELSE 0)
  IN  << y, m, d, secs \div SecondsPerHour,
         (secs % SecondsPerHour) \div SecondsPerMinute, secs % SecondsPerMinute >>

\* The clock at power-up: 2025-02-28T23:59:57Z.
BootTime == mktime(<<2025, 2, 28, 23, 59, 57>>)

\* ---------------------------------------------------- CountdownFormatter
\* Variant: the minutes are taken of the day, not of the hour.
MinutesOfDay(remaining) == (remaining % SecondsPerDay) \div SecondsPerMinute

\* lines 550-553
Days(remaining) == remaining \div SecondsPerDay
Hours(remaining) == (remaining % SecondsPerDay) \div SecondsPerHour
Minutes(remaining) == (remaining % SecondsPerHour) \div SecondsPerMinute
Seconds(remaining) == remaining % SecondsPerMinute

\* f"{n:02}": the number of characters drawn for a field
Width02(n) == IF n < 10 THEN 2 ELSE IF n < 100 THEN 2 ELSE IF n < 1000 THEN 3 ELSE 4

\* line 517: the widths measured once, before the loop, each of the text
\* "00"; in characters
num_widths == << 2, 2, 2, 2 >>

\* lines 531-532, 550-554 and 558-560: what one frame computes from the
\* clock, the characters it draws per field and the width it advances by
CountdownView(t, remaining) ==
  [ now |-> t,
    remaining_seconds |-> remaining,
    days    |-> Days(remaining),
    hours   |-> Hours(remaining),
    minutes |-> Minutes(remaining),
    seconds |-> Seconds(remaining),
    digits  |-> << Width02(Days(remaining)), Width02(Hours(remaining)),
                   Width02(Minutes(remaining)), Width02(Seconds(remaining)) >>,
    widths  |-> num_widths ]

NoView == [ now |-> 0, remaining_seconds |-> -1 ]

\* Variant: the warning lasts for the two seconds below the threshold.
IsWarningBand(remaining) == remaining < WarningThreshold /\ remaining > WarningThreshold - 3

\* Variants: the threshold itself counts as warning; the comparison is
\* turned round.
IsWarningInclusive(remaining) == remaining <= WarningThreshold
IsWarningAbove(remaining) == remaining > WarningThreshold

\* line 579: if remaining_seconds < 1800
IsWarning(remaining) == remaining < WarningThreshold

\* The LED regime a frame drives (lines 579-591).
FrameRegime(remaining) == IF IsWarning(remaining) THEN "WARNING" ELSE "AMBIENT"


\* ------------------------------------------------------------ the records
\* Every value that may be absent carries a tag.
None == [ tag |-> "None" ]
MISSING == [ tag |-> "missing" ]
NULL == [ tag |-> "null" ]
NoKey == "<no key>"

\* Two launches that differ in every field the display uses.
RecA == [ name |-> "Falcon 9", provider |-> "SpaceX", location |-> "Cape Canaveral" ]
RecB == [ name |-> "Electron", provider |-> "Rocket Lab", location |-> "Mahia" ]

\* "net" as the launch library writes it for the instant ts:
\* "YYYY-MM-DDTHH:MM:SSZ", kept as its date parts and its time parts.
IsoNet(ts) ==
  LET t == localtime(ts)
  IN  [ tag |-> "str", has_T |-> TRUE, numeric |-> TRUE,
        date |-> << t[1], t[2], t[3] >>, time |-> << t[4], t[5], t[6] >> ]

\* "net" values the two try blocks of lines 341-362 reject.
NetDateOnly(ts) == [ IsoNet(ts) EXCEPT !.has_T = FALSE, !.time = << >> ]
NetNotNumeric(ts) == [ IsoNet(ts) EXCEPT !.numeric = FALSE ]

Url(scheme, stem, ext) == [ tag |-> "str", scheme |-> scheme, stem |-> stem, ext |-> ext ]
Thumb(url) == [ tag |-> "dict", thumbnail_url |-> url ]

\* One entry of "results".
Launch(rec, net, image) ==
  [ name |-> rec.name, net |-> net, launch_service_provider |-> rec.provider,
    pad |-> rec.location, image |-> image ]

Body(results) == [ tag |-> "dict", results |-> results ]
List(items) == [ tag |-> "list", items |-> items ]

\* What urequests.get and response.json() can hand to fetch_launch_data.
HttpException == [ http |-> "exception", code |-> 0, body |-> None ]
HttpStatus(code) == [ http |-> "response", code |-> code, body |-> None ]
HttpJson(body) == [ http |-> "response", code |-> 200, body |-> body ]
NotJson == [ tag |-> "not json" ]

\* Records that start a session, with the event some seconds from t.
GoodLaunches(t) ==
  { Launch(RecA, IsoNet(t + 5), Thumb(Url("https", "falcon", "jpg"))),
    Launch(RecB, IsoNet(t), Thumb(Url("https", "electron", "png"))),
    Launch(RecB, IsoNet(t + 3), MISSING),
    Launch(RecA, IsoNet(t - 7), NULL),
    Launch(RecA, IsoNet(t + 5), Thumb(Url("ftp", "falcon", "jpg"))),
    Launch(RecB, IsoNet(t + 5), Thumb(Url("https", "patch", ""))),
    Launch(RecA, IsoNet(t + 3), Thumb(Url("https", "falcon", "gif"))) }

\* Records the parsing of lines 341-362 rejects.
UnparsableLaunches(t) ==
  { Launch(RecA, NetDateOnly(t + 5), MISSING),
    Launch(RecB, NetNotNumeric(t + 5), MISSING),
    Launch(RecA, NULL, MISSING) }

\* Records with a field of lines 332-335 absent.
IncompleteLaunches(t) ==
  { [ Launch(RecA, IsoNet(t + 5), MISSING) EXCEPT !.name = NoKey ],
    Launch(RecA, MISSING, MISSING),
    [ Launch(RecB, IsoNet(t + 5), MISSING) EXCEPT !.launch_service_provider = NoKey ],
    [ Launch(RecB, IsoNet(t + 5), MISSING) EXCEPT !.pad = NoKey ] }

\* The answers that start no session and raise nothing.
FailedResponses ==
  { HttpException, HttpStatus(500), HttpJson(NotJson), HttpJson(NULL),
    HttpJson(Body(MISSING)) }

\* The answers to one request made at time t.
Responses(t) ==
  FailedResponses
    \cup { HttpJson(Body(List(<< >>))) }
    \cup { HttpJson(Body(List(<< l >>))) :
             l \in GoodLaunches(t) \cup UnparsableLaunches(t) \cup IncompleteLaunches(t) }

\* lines 401-410: the value fetch_launch_data returns
FetchResult(resp) ==
  IF resp.http = "exception" THEN None
  ELSE IF resp.code # 200 THEN None
  ELSE IF resp.body.tag = "not json" THEN None
  ELSE resp.body

\* line 701, "if launch_data": None and an empty JSON value are falsy
Truthy(data) == data.tag \notin { "None", "null" }

\* Variant: a failed fetch leaves the record of the fetch before it.
AssignedUnlessFailed(old, new) == IF Truthy(new) THEN new ELSE old

\* line 699: the main loop's assignment of the value fetched
Assigned(old, new) == new

\* lines 327-335: what fetch_and_process_launch does with the record before
\* it parses the date: "no_results" (return), "raise" (uncaught IndexError
\* or KeyError), or "fields".
Extract(data) ==
  IF data.results.tag = "missing" THEN "no_results"
  ELSE IF Len(data.results.items) = 0 THEN "raise"
  ELSE IF \/ data.results.items[1].name = NoKey
          \/ data.results.items[1].net.tag = "missing"
          \/ data.results.items[1].launch_service_provider = NoKey
          \/ data.results.items[1].pad = NoKey
       THEN "raise"
  ELSE "fields"

\* lines 341-350: the first try block
DateParses(net) == net.tag = "str" /\ net.has_T /\ Len(net.date) >= 3

\* lines 353-362: the second try block
TimeConverts(net) == net.numeric /\ Len(net.date) = 3 /\ Len(net.time) = 3

\* lines 342-345: "DD-MM-YYYY" and "HH:MM"
FormattedDate(net) == << net.date[3], net.date[2], net.date[1] >>
TimeIso(net) == << net.time[1], net.time[2] >>

\* lines 354-357
LaunchTimeUnix(net) ==
  mktime(<< net.date[1], net.date[2], net.date[3],
            net.time[1], net.time[2], net.time[3] >>)

\* lines 365-366
ImageUrl(launch) ==
  IF launch.image.tag = "dict" THEN launch.image.thumbnail_url ELSE None

\* lines 284-298: the file download_image would write, or None
TargetFile(url) ==
  IF url.tag # "str" THEN None
  ELSE IF url.scheme \notin { "http", "https" } THEN None
  ELSE IF url.ext = "" THEN None
  ELSE [ tag |-> "path", stem |-> url.stem, ext |-> url.ext ]

DownloadOutcomes == { "ok", "status", "exception" }

\* lines 303-306: the request or the write of the file raises
DownloadRaises(url, mounted, outcome) ==
  /\ TargetFile(url).tag = "path"
  /\ outcome = "exception" \/ (outcome = "ok" /\ ~ mounted)

\* lines 315-317: except Exception
DownloadCatches == TRUE

\* lines 303-317: the path download_image returns
Downloaded(url, mounted, outcome) ==
  IF outcome = "ok" /\ mounted THEN TargetFile(url) ELSE None

\* lines 445 and 465: the decoder display_background picks
Decoder(path) ==
  IF path.ext = "png" THEN "png"
  ELSE IF path.ext \in { "jpg", "jpeg" } THEN "jpeg"
  ELSE "unsupported"

\* Variant: the PNG is centred by its declared size.
DecodeOriginUnscaled(decoder, w, h) == << (WIDTH - w) \div 2, (HEIGHT - h) \div 2 >>

\* lines 450-459 and 469-471: center_x, center_y for an image the decoder
\* reports as w x h; the PNG is decoded at scale 2.
DecodeOrigin(decoder, w, h) ==
  IF decoder = "png"
  THEN << (WIDTH - w * 2) \div 2, (HEIGHT - h * 2) \div 2 >>
  ELSE << (WIDTH - w) \div 2, (HEIGHT - h) \div 2 >>

DecodeOutcomes == { "ok", "OSError", "MemoryError", "other" }

\* Variant: only the named exceptions are caught.
DecodeCatchesNamed(outcome) == outcome \in { "OSError", "MemoryError" }

\* lines 486-494: except OSError, except MemoryError, and the bare except
DecodeCatches(outcome) == outcome \in { "OSError", "MemoryError", "other" }

\* lines 443-475: the decoder is run and raises
DecodeRaises(path, outcome) == Decoder(path) # "unsupported" /\ outcome # "ok"

\* lines 417-494: the background display_background leaves on the cleared
\* screen when the file is listed
Background(path, outcome) ==
  IF Decoder(path) # "unsupported" /\ outcome = "ok" THEN path ELSE None

\* ---------------------------------------------------------------- state
VARIABLES
  pc,             \* where the program is
  now,            \* utime.time()
  fetches,        \* requests fetch_launch_data has made
  launch_data,    \* the main loop's launch_data
  session,        \* the locals of fetch_and_process_launch / display_final_ui
  img_path,       \* img_path of fetch_and_process_launch
  sd_mounted,     \* /sd is mounted and /sd/gallery exists
  sd_files,       \* the files of /sd/gallery
  TERMINAL_MODE,
  BOOT_LOG,       \* one category per line
  nebula_step,
  pulse_step,     \* pulse_step of display_countdown
  idle_i,         \* the counter of the loop of line 709
  leds,           \* what bl.set_rgb last gave each zone
  screen,         \* what the display holds
  effects,        \* the device operations of the last step
  view,           \* what the last frame computed (lines 531-554)
  slip,           \* clock seconds slipped in between two reads, this session
  ticks,          \* history: the number of nebula_step increments so far
  fetched,        \* history: the value the last fetch returned
  fails,          \* history: fetches in a row that started no session
  probe           \* a call of a pure function: its arguments, then its result

vars == << pc, now, fetches, launch_data, session, img_path, sd_mounted, sd_files,
           TERMINAL_MODE, BOOT_LOG, nebula_step, pulse_step, idle_i, leds, screen,
           effects, view, slip, ticks, fetched, fails, probe >>

NoSession == [ tag |-> "none" ]

ScreenBlank == [ terminal |-> FALSE, bg |-> None, info |-> NoSession, countdown |-> << >> ]
ScreenTerminal == [ ScreenBlank EXCEPT !.terminal = TRUE ]

LedsOff == [ i \in Zones |-> [ mode |-> "OFF", stop |-> -1, phase |-> F32Zero, pulse |-> F32Zero ] ]

\* lines 82-85 of boot_log: the lines appended, the oldest dropped
Logged(log, lines) ==
  LET all == log \o lines
  IN  IF Len(all) > MAX_LOG_LINES
      THEN SubSeq(all, Len(all) - MAX_LOG_LINES + 1, Len(all))
      ELSE all

\* lines 68-98: BOOT_LOG after boot_log calls that add these lines
BootLog(log, terminal, lines) == IF terminal THEN Logged(log, lines) ELSE log

\* Variant: boot_log redraws the terminal whatever the flag says.
LogScreenAlways(scr, terminal) == ScreenTerminal

\* lines 87-97: the screen after a boot_log call
LogScreen(scr, terminal) == IF terminal THEN ScreenTerminal ELSE scr

LogEffects(terminal) == IF terminal THEN { "clear", "terminal", "present" } ELSE { }

\* The program as the module's top level leaves it before line 690.
Constructed ==
  /\ pc = "boot"
  /\ now = BootTime
  /\ fetches = 0
  /\ launch_data = None
  /\ session = NoSession
  /\ img_path = None
  /\ sd_mounted = FALSE
  /\ sd_files = { [ tag |-> "path", stem |-> "stale", ext |-> "jpg" ] }
  /\ TERMINAL_MODE = TRUE
  /\ BOOT_LOG = << >>
  /\ nebula_step = F32Zero
  /\ pulse_step = F32Zero
  /\ idle_i = 0
  /\ leds = LedsOff
  /\ screen = ScreenBlank
  /\ effects = { }
  /\ view = NoView
  /\ slip = 0
  /\ ticks = 0
  /\ fetched = None
  /\ fails = 0

NoProbe == [ tag |-> "none", c1 |-> << >>, c2 |-> << >>, t |-> F32Zero, w |-> 0, h |-> 0, out |-> << >> ]

Init == Constructed /\ probe = NoProbe

\* lines 250-260, clear_images: listdir raises OSError when nothing is mounted
ClearImages(mounted, files) == IF mounted THEN { } ELSE files

\* lines 689-693: setup_sd, connect_wifi, clear_images
Boot(mount_ok) ==
  /\ pc = "boot"
  /\ sd_mounted' = mount_ok
  /\ sd_files' = ClearImages(mount_ok, sd_files)
  /\ BOOT_LOG' = BootLog(BOOT_LOG, TERMINAL_MODE, << "DISK", "DISK", "WEB", "WEB" >>)
  /\ screen' = LogScreen(screen, TERMINAL_MODE)
  /\ effects' = LogEffects(TERMINAL_MODE) \cup (IF mount_ok THEN { "sd_remove" } ELSE { })
  /\ pc' = "loop"
  /\ UNCHANGED << probe, now, fetches, launch_data, session, img_path, TERMINAL_MODE,
                  nebula_step, pulse_step, idle_i, leds, view, slip, ticks, fetched, fails >>

\* lines 698-699 and 391-401: the request is sent
FetchRequest ==
  /\ pc = "loop"
  /\ fetches' = fetches + 1
  /\ BOOT_LOG' = BootLog(BOOT_LOG, TERMINAL_MODE, << "SYSTEM", "WEB" >>)
  /\ screen' = LogScreen(screen, TERMINAL_MODE)
  /\ effects' = LogEffects(TERMINAL_MODE) \cup { "fetch" }
  /\ pc' = "fetching"
  /\ UNCHANGED << probe, now, launch_data, session, img_path, sd_mounted, sd_files, TERMINAL_MODE,
                  nebula_step, pulse_step, idle_i, leds, view, slip, ticks, fetched, fails >>

\* lines 401-410 and 699-705: the answer arrives, launch_data is assigned
\* and tested
FetchReturn(resp, cap) ==
  /\ pc = "fetching"
  /\ fetches <= cap
  /\ launch_data' = Assigned(launch_data, FetchResult(resp))
  /\ fetched' = FetchResult(resp)
  /\ BOOT_LOG' = BootLog(BOOT_LOG, TERMINAL_MODE,
                         IF Truthy(launch_data') THEN << "WEB" >> ELSE << "WEB", "ERROR" >>)
  /\ screen' = LogScreen(screen, TERMINAL_MODE)
  /\ effects' = LogEffects(TERMINAL_MODE)
  /\ pc' = IF Truthy(launch_data') THEN "process" ELSE "idle"
  /\ idle_i' = 0
  /\ fails' = IF Truthy(launch_data') THEN fails ELSE fails + 1
  /\ UNCHANGED << probe, now, fetches, session, img_path, sd_mounted, sd_files, TERMINAL_MODE,
                  nebula_step, pulse_step, leds, view, slip, ticks >>

\* lines 331-357: the locals of a session
SessionOf(launch, t) ==
  [ tag |-> "session", name |-> launch.name, date |-> FormattedDate(launch.net),
    time |-> TimeIso(launch.net), provider |-> launch.launch_service_provider,
    location |-> launch.pad, launch_time |-> LaunchTimeUnix(launch.net),
    image_url |-> ImageUrl(launch), began |-> t ]

\* lines 323-362: what fetch_and_process_launch does up to the download:
\* "return", "raise", or "download"
Processed(data) ==
  IF Extract(data) = "no_results" THEN "return"
  ELSE IF Extract(data) = "raise" THEN "raise"
  ELSE IF ~ DateParses(data.results.items[1].net) THEN "return"
  ELSE IF ~ TimeConverts(data.results.items[1].net) THEN "return"
  ELSE "download"

\* Where an exception nothing catches leaves the program: the main loop
\* has no handler (lines 696-711).
Uncaught == "crashed"

\* lines 323-362
ProcessLaunch ==
  /\ pc = "process"
  /\ pc' = CASE Processed(launch_data) = "return" -> "idle"
             [] Processed(launch_data) = "raise" -> Uncaught
             [] OTHER -> "download"
  /\ session' = IF Processed(launch_data) = "download"
                THEN SessionOf(launch_data.results.items[1], now)
                ELSE NoSession
  /\ BOOT_LOG' = BootLog(BOOT_LOG, TERMINAL_MODE,
                         IF Processed(launch_data) = "download"
                         THEN << "UI", "DATA", "DATA", "DATA", "DATA" >>
                         ELSE << "UI", "ERROR" >>)
  /\ screen' = LogScreen(ScreenBlank, TERMINAL_MODE)
  /\ effects' = LogEffects(TERMINAL_MODE) \cup { "clear" }
  /\ fails' = IF Processed(launch_data) = "return" THEN fails + 1 ELSE fails
  /\ UNCHANGED << probe, now, fetches, launch_data, img_path, sd_mounted, sd_files, TERMINAL_MODE,
                  nebula_step, pulse_step, idle_i, leds, view, slip, ticks, fetched >>

\* lines 364-384: the image is downloaded, the terminal is switched off
AcquireImage(outcome) ==
  /\ pc = "download"
  /\ img_path' = Downloaded(session.image_url, sd_mounted, outcome)
  /\ sd_files' = IF img_path'.tag = "path" THEN sd_files \cup { img_path' } ELSE sd_files
  /\ BOOT_LOG' = BootLog(BOOT_LOG, TERMINAL_MODE, << "WEB", "WEB", "UI" >>)
  /\ screen' = LogScreen(screen, TERMINAL_MODE)
  /\ effects' = LogEffects(TERMINAL_MODE)
                  \cup (IF TargetFile(session.image_url).tag = "path"
                        THEN { "download" } ELSE { })
  /\ TERMINAL_MODE' = FALSE
  /\ pc' = IF DownloadRaises(session.image_url, sd_mounted, outcome) /\ ~ DownloadCatches
           THEN Uncaught ELSE "final_ui"
  /\ UNCHANGED << probe, now, fetches, launch_data, session, sd_mounted,
                  nebula_step, pulse_step, idle_i, leds, view, slip, ticks, fetched, fails >>

\* The static text display_launch_info draws (lines 601-625).
InfoOf(s) ==
  [ tag |-> "info", name |-> s.name, date |-> s.date, time |-> s.time,
    provider |-> s.provider, location |-> s.location ]

\* Variant: the countdown starts the animation over (the line removed at
\* line 528).
CountdownStartReset(step) == F32Zero

\* lines 502-528: the nebula_step display_countdown starts its loop with
CountdownStart(step) == step

\* Variant: the pulse goes on from where the last session left it.
PulseStartKept(step) == step

\* line 527: pulse_step = 0, a local of display_countdown
PulseStart(step) == F32Zero

\* lines 667-681 and 502-528: display_final_ui up to the frame loop.
\* present: the file is still listed in /sd/gallery (line 431).
DisplayFinalUI(present, decoded) ==
  /\ pc = "final_ui"
  /\ LET shown == img_path.tag = "path" /\ present
         bg    == IF shown THEN Background(img_path, decoded) ELSE screen.bg
         base  == IF shown THEN ScreenBlank ELSE screen
     IN  /\ screen' = [ base EXCEPT !.bg = bg, !.info = InfoOf(session) ]
         /\ effects' = { "static_text", "present" }
                         \cup (IF shown THEN { "clear" } ELSE { })
                         \cup (IF shown /\ Decoder(img_path) # "unsupported"
                               THEN { "decode" } ELSE { })
  /\ sd_files' = IF img_path.tag = "path" /\ ~ present
                 THEN sd_files \ { img_path } ELSE sd_files
  /\ BOOT_LOG' = << >>
  /\ pulse_step' = PulseStart(pulse_step)
  /\ nebula_step' = CountdownStart(nebula_step)
  /\ slip' = 0
  /\ pc' = IF /\ img_path.tag = "path" /\ present
              /\ DecodeRaises(img_path, decoded) /\ ~ DecodeCatches(decoded)
           THEN Uncaught ELSE "cd_check"
  /\ UNCHANGED << probe, now, fetches, launch_data, session, img_path, sd_mounted, TERMINAL_MODE,
                  idle_i, leds, view, ticks, fetched, fails >>

\* line 530: while utime.time() < launch_time
Running(t, launch_time) == t < launch_time

\* Leaving display_countdown: it returns True (lines 536, 597),
\* display_final_ui presents (line 684) and returns, and so does
\* fetch_and_process_launch; the main loop goes on at line 709.
AfterCountdown == "idle"

\* line 530, and the return of line 597 when the condition fails
CountdownCheck ==
  /\ pc = "cd_check"
  /\ pc' = IF Running(now, session.launch_time) THEN "cd_frame" ELSE AfterCountdown
  /\ session' = IF Running(now, session.launch_time) THEN session ELSE NoSession
  /\ img_path' = IF Running(now, session.launch_time) THEN img_path ELSE None
  /\ effects' = IF Running(now, session.launch_time) THEN { } ELSE { "present" }
  /\ idle_i' = 0
  /\ fails' = IF Running(now, session.launch_time) THEN fails ELSE 0
  /\ UNCHANGED << probe, now, fetches, launch_data, sd_mounted, sd_files, TERMINAL_MODE, BOOT_LOG,
                  nebula_step, pulse_step, leds, screen, view, slip, ticks, fetched >>

\* Variant: the red pulse is staggered from zone to zone.
WarningColorStaggered(pulse, i) == << RedIntensity(F32Add(pulse, IntToF32(i))), 0, 0 >>

\* lines 580-583: bl.set_rgb(i, red_intensity, 0, 0)
WarningColor(pulse, i) == << RedIntensity(pulse), 0, 0 >>

\* lines 588-589: bl.set_rgb(i, *NEBULA_COLORS[color_index])
AmbientColor(step, i) == Stop(ColorIndex(step, i))

\* lines 579-589: the regime in which one frame drives each zone, its
\* palette stop, and the phase (nebula_step or pulse_step) the frame read;
\* the colour sent is a function of these, ZoneColor below.
FrameLeds(remaining, step, pulse) ==
  [ i \in Zones |->
      IF IsWarning(remaining)
      THEN [ mode |-> "WARNING", stop |-> -1, phase |-> F32Zero, pulse |-> pulse ]
      ELSE [ mode |-> "AMBIENT", stop |-> ColorIndex(step, i), phase |-> step,
             pulse |-> F32Zero ] ]

\* Variant: the frame at zero is drawn.
ExpiredBelowZero(remaining) == remaining < 0

\* line 534: if remaining_seconds <= 0
Expired(remaining) == remaining <= 0

\* Variant: every frame clears the screen.
FrameEffectsWithClear == { "clear", "rectangle", "countdown_text", "leds", "present", "sleep" }

\* lines 539-595: the device operations of one frame: display.rectangle,
\* vector.text, bl.set_rgb, presto.update, utime.sleep
FrameEffects == { "rectangle", "countdown_text", "leds", "present", "sleep" }

\* lines 531-595: one pass of the frame loop.  late: the seconds the clock
\* has advanced since the read of line 530.
CountdownFrame(late) ==
  /\ pc = "cd_frame"
  /\ slip + late <= MaxSlip
  /\ slip' = slip + late
  /\ LET t         == now + late
         remaining == session.launch_time - t
     IN  IF Expired(remaining)
         THEN /\ pc' = AfterCountdown
              /\ now' = t
              /\ session' = NoSession
              /\ img_path' = None
              /\ effects' = { "present" }
              /\ fails' = 0
              /\ UNCHANGED << view, leds, screen, nebula_step, pulse_step, ticks >>
         ELSE /\ pc' = "cd_check"
              /\ now' = t + FrameSleep
              /\ view' = CountdownView(t, remaining)
              /\ screen' = [ screen EXCEPT !.countdown = view'.digits ]
              /\ leds' = FrameLeds(remaining, nebula_step, pulse_step)
              /\ nebula_step' = IF IsWarning(remaining) THEN nebula_step
                                ELSE NebulaAdvance(nebula_step)
              /\ pulse_step' = IF IsWarning(remaining) THEN PulseAdvance(pulse_step)
                               ELSE pulse_step
              /\ ticks' = IF IsWarning(remaining) THEN ticks ELSE ticks + 1
              /\ effects' = FrameEffects
              /\ UNCHANGED << session, img_path, fails >>
  /\ idle_i' = 0
  /\ UNCHANGED << probe, fetches, launch_data, sd_mounted, sd_files, TERMINAL_MODE, BOOT_LOG,
                  fetched >>

\* lines 138-157: the colour of a zone before the brightness factor
IdleBlend(step, i) ==
  LET idx_int == ColorIndex(step, i)
  IN  lerp_color(Stop(idx_int), Stop(NextIndex(idx_int)), Alpha(step, i))

\* lines 136-166: the stop update_nebula_color puts each zone at, and the
\* phase it read
IdleLeds(step) ==
  [ i \in Zones |->
      [ mode |-> "IDLE", stop |-> ColorIndex(step, i), phase |-> step, pulse |-> F32Zero ] ]

\* The fraction of the phase at the last update of zone i (line 142).
ZoneAlpha(i) == Alpha(leds[i].phase, i)

\* The colour of zone i at its last update, before the brightness factor:
\* r, g, b of lines 155-157, NEBULA_COLORS[color_index] of line 589,
\* (red_intensity, 0, 0) of line 583.
ZoneBase(i) ==
  CASE leds[i].mode = "IDLE" -> IdleBlend(leds[i].phase, i)
    [] leds[i].mode = "AMBIENT" -> AmbientColor(leds[i].phase, i)
    [] leds[i].mode = "WARNING" -> WarningColor(leds[i].pulse, i)
    [] OTHER -> << 0, 0, 0 >>

\* The arguments of the last bl.set_rgb(i, r, g, b)   (lines 166, 583, 589).
ZoneColor(i) ==
  IF leds[i].mode = "IDLE"
  THEN Dimmed(ZoneBase(i), Brightness(leds[i].phase, i))
  ELSE ZoneBase(i)

\* Variant: the idle animation never hands back to the main loop.
AfterIdleTickStays(i) == "idle"

\* Variant: the wait is one tick short.
AfterIdleTickEarly(i) == IF i < IdleTicks - 1 THEN "idle" ELSE "loop"

\* line 709: the loop goes on, or the main loop starts over
AfterIdleTick(i) == IF i < IdleTicks THEN "idle" ELSE "loop"

\* lines 709-711: update_nebula_color() and utime.sleep(5)
IdleTick ==
  /\ pc = "idle"
  /\ idle_i < IdleTicks
  /\ leds' = IdleLeds(nebula_step)
  /\ nebula_step' = NebulaAdvance(nebula_step)
  /\ ticks' = ticks + 1
  /\ now' = now + IdleSleep
  /\ idle_i' = idle_i + 1
  /\ pc' = AfterIdleTick(idle_i')
  /\ effects' = { "leds", "sleep" }
  /\ UNCHANGED << probe, fetches, launch_data, session, img_path, sd_mounted, sd_files,
                  TERMINAL_MODE, BOOT_LOG, pulse_step, screen, view, slip, fetched, fails >>

Next ==
  \/ \E ok \in BOOLEAN : Boot(ok)
  \/ FetchRequest
  \/ \E resp \in Responses(now) : FetchReturn(resp, MaxFetches)
  \/ ProcessLaunch
  \/ \E o \in DownloadOutcomes : AcquireImage(o)
  \/ \E present \in BOOLEAN, d \in DecodeOutcomes : DisplayFinalUI(present, d)
  \/ CountdownCheck
  \/ \E late \in 0 .. 1 : CountdownFrame(late)
  \/ IdleTick

Spec == Init /\ [][Next]_vars

\* A few answers, for the runs checked for progress.
LiveResponses(t) ==
  { HttpException,
    HttpJson(Body(MISSING)),
    HttpJson(Body(List(<< Launch(RecA, IsoNet(t + 5), Thumb(Url("https", "falcon", "jpg"))) >>))),
    HttpJson(Body(List(<< Launch(RecB, IsoNet(t), MISSING) >>))),
    HttpJson(Body(List(<< Launch(RecA, IsoNet(t - 7), NULL) >>))) }

NextLive ==
  \/ \E ok \in BOOLEAN : Boot(ok)
  \/ FetchRequest
  \/ \E resp \in LiveResponses(now) : FetchReturn(resp, MaxLiveFetches)
  \/ ProcessLaunch
  \/ \E o \in DownloadOutcomes : AcquireImage(o)
  \/ \E present \in BOOLEAN, d \in DecodeOutcomes : DisplayFinalUI(present, d)
  \/ CountdownCheck
  \/ \E late \in 0 .. 1 : CountdownFrame(late)
  \/ IdleTick

\* The program is one thread that runs on: a step that can be taken is
\* taken.
FairSpec == Init /\ [][NextLive]_vars /\ WF_vars(NextLive)

\* The network is down or the service answers without a launch.
NextOffline ==
  \/ \E ok \in BOOLEAN : Boot(ok)
  \/ FetchRequest
  \/ \E resp \in FailedResponses : FetchReturn(resp, MaxOfflineFetches)
  \/ ProcessLaunch
  \/ IdleTick

SpecOffline == Init /\ [][NextOffline]_vars

\* A launch more than half an hour away, or no answer.
LongDelta == WarningThreshold + 5

LongResponses(t) ==
  { HttpException, HttpJson(Body(List(<< Launch(RecA, IsoNet(t + LongDelta), MISSING) >>))) }

NextLong ==
  \/ \E ok \in BOOLEAN : Boot(ok)
  \/ FetchRequest
  \/ \E resp \in LongResponses(now) : FetchReturn(resp, MaxLongFetches)
  \/ ProcessLaunch
  \/ \E o \in DownloadOutcomes : AcquireImage(o)
  \/ \E d \in DecodeOutcomes : DisplayFinalUI(TRUE, d)
  \/ CountdownCheck
  \/ \E late \in 0 .. 1 : CountdownFrame(late)
  \/ IdleTick

SpecLong == Init /\ [][NextLong]_vars

\* The first frame of a session, for launches any time away.
FrameInputs ==
  (1 .. MaxRemaining)
    \cup { 1799, 1800, 1801, 3599, 3600, 3661, 86399, 86400, 86401, 90061,
           172799, 172800, 863999, 864000, 8639999, 8640000, 8643661 }

FrameResponses(t) ==
  { HttpJson(Body(List(<< Launch(RecA, IsoNet(t + r), MISSING) >>))) : r \in FrameInputs }

NextFrame ==
  \/ \E ok \in BOOLEAN : Boot(ok)
  \/ FetchRequest
  \/ \E resp \in FrameResponses(now) : FetchReturn(resp, 1)
  \/ ProcessLaunch
  \/ \E o \in DownloadOutcomes : AcquireImage(o)
  \/ \E d \in DecodeOutcomes : DisplayFinalUI(TRUE, d)
  \/ CountdownCheck
  \/ view = NoView /\ CountdownFrame(0)

SpecFrame == Init /\ [][NextFrame]_vars

\* The program after a long run without network: 16673 rounds of a failed
\* request and 100 idle ticks, about 96 days.  AgedPhase is nebula_step
\* after that many additions of 0.02, each rounded to binary32
\* (32763.650390625); AgedPhaseBefore is its value one tick earlier.
AgedRounds == 16673
AgedTicks == AgedRounds * IdleTicks
AgedPhase == F32(32763, 349175808)
AgedPhaseBefore == F32(32763, 338690048)

InitAged ==
  /\ pc = "loop"
  /\ now = BootTime + AgedTicks * IdleSleep
  /\ fetches = AgedRounds
  /\ launch_data = None
  /\ session = NoSession
  /\ img_path = None
  /\ sd_mounted = FALSE
  /\ sd_files = { [ tag |-> "path", stem |-> "stale", ext |-> "jpg" ] }
  /\ TERMINAL_MODE = TRUE
  /\ BOOT_LOG = << "SYSTEM", "WEB", "WEB", "ERROR", "SYSTEM", "WEB", "WEB", "ERROR" >>
  /\ nebula_step = AgedPhase
  /\ pulse_step = F32Zero
  /\ idle_i = IdleTicks
  /\ leds = IdleLeds(AgedPhaseBefore)
  /\ screen = ScreenTerminal
  /\ effects = { "leds", "sleep" }
  /\ view = NoView
  /\ slip = 0
  /\ ticks = AgedTicks
  /\ fetched = None
  /\ fails = AgedRounds
  /\ probe = NoProbe

NextAged ==
  \/ FetchRequest
  \/ \E resp \in FailedResponses : FetchReturn(resp, AgedRounds + MaxAgedFetches)
  \/ ProcessLaunch
  \/ IdleTick

SpecAged == InitAged /\ [][NextAged]_vars

\* The pure functions, each applied once to arguments drawn at the start.
ProbeColors ==
  { NEBULA_COLORS[k] : k \in 1 .. PaletteLen }
    \cup { << 0, 0, 0 >>, << 255, 255, 255 >>, << 255, 0, 1 >>, << 1, 254, 128 >> }
    \cup { << 17 * k, 255 - 17 * k, (51 * k) % 256 >> : k \in 0 .. 15 }

\* t: 0, 1, 0.5 and the float 0.02
ProbeFractions == { F32(0, 0), F32(1, 0), F32(0, 2^28), nebula_speed }

ProbeSizes == { 1, 2, 100, 239, 240, 241, 480, 481, 640 }

ProbeInputs ==
  { [ tag |-> "lerp_color", c1 |-> a, c2 |-> b, t |-> t, w |-> 0, h |-> 0, out |-> << >> ] :
      a \in ProbeColors, b \in ProbeColors, t \in ProbeFractions }
    \cup
  { [ tag |-> d, c1 |-> << >>, c2 |-> << >>, t |-> F32Zero, w |-> w, h |-> h, out |-> << >> ] :
      d \in { "png", "jpeg" }, w \in ProbeSizes, h \in ProbeSizes }

InitPure == Constructed /\ probe \in ProbeInputs

program_vars ==
  << pc, now, fetches, launch_data, session, img_path, sd_mounted, sd_files,
     TERMINAL_MODE, BOOT_LOG, nebula_step, pulse_step, idle_i, leds, screen,
     effects, view, slip, ticks, fetched, fails >>

\* lerp_color(c1, c2, t) is called   (lines 121-128)
ApplyLerp ==
  /\ probe.tag = "lerp_color"
  /\ probe.out = << >>
  /\ probe' = [ probe EXCEPT !.out = lerp_color(probe.c1, probe.c2, probe.t) ]
  /\ UNCHANGED program_vars

\* display_background computes the decode origin   (lines 445-475)
ApplyOrigin ==
  /\ probe.tag \in { "png", "jpeg" }
  /\ probe.out = << >>
  /\ probe' = [ probe EXCEPT !.out = DecodeOrigin(probe.tag, probe.w, probe.h) ]
  /\ UNCHANGED program_vars

NextPure == ApplyLerp \/ ApplyOrigin

SpecPure == InitPure /\ [][NextPure]_vars

\* ---------------------------------------------------------------- claims
InCountdown == pc \in { "cd_check", "cd_frame" }

\* C1: no failure terminates the process; the program never stops with an
\* uncaught error, whatever the fetch returns.
NoUncaughtError == pc # "crashed"

\* C2: nebula_step never decreases and is never set back to 0: after every
\* step its value is at least its value before, and once it has advanced
\* it is not 0 again.
PhaseNeverGoesBack ==
  [][ /\ \/ nebula_step'.w > nebula_step.w
         \/ nebula_step'.w = nebula_step.w /\ nebula_step'.f >= nebula_step.f
      /\ ticks > 0 => (nebula_step'.w > 0 \/ nebula_step'.f > 0) ]_vars

\* C2 witness: a later session, entered after idle ticks, that has gone from
\* AMBIENT frames to WARNING frames with the phase carried along.
PhaseKeptAcrossSession ==
  /\ pc = "cd_check"
  /\ ticks > IdleTicks
  /\ leds[0].mode = "WARNING"
  /\ nebula_step.w >= 2

\* C3: a session uses the record the latest fetch returned, and only that
\* one: its name, provider, location, date and start time are those of the
\* record, and a record the service returned well-formed starts a session.
SessionShowsFetchedRecord ==
  /\ [] ( session.tag = "session" =>
            /\ fetched.tag = "dict"
            /\ fetched.results.tag = "list"
            /\ Len(fetched.results.items) = 1
            /\ LET l == fetched.results.items[1]
               IN  /\ session.name = l.name
                   /\ session.provider = l.launch_service_provider
                   /\ session.location = l.pad
                   /\ localtime(session.launch_time) = l.net.date \o l.net.time
                   /\ session.date = << l.net.date[3], l.net.date[2], l.net.date[1] >>
                   /\ session.time = << l.net.time[1], l.net.time[2] >>
                   /\ InCountdown =>
                        /\ screen.info.tag = "info"
                        /\ screen.info.name = l.name
                        /\ screen.info.provider = l.launch_service_provider
                        /\ screen.info.location = l.pad )
  /\ [][ ( /\ pc = "process"
           /\ fetched.tag = "dict"
           /\ fetched.results.tag = "list"
           /\ Len(fetched.results.items) = 1
           /\ fetched.results.items[1] \in GoodLaunches(now) )
         => (pc' = "download" /\ session'.tag = "session") ]_vars

\* C3 witness: a session of the second launch, running after a failed fetch
\* that followed a session of the first launch (whose image is on the card).
SessionAfterFailure ==
  /\ pc = "cd_frame"
  /\ fails = 1
  /\ session.name = "Electron"
  /\ [ tag |-> "path", stem |-> "falcon", ext |-> "jpg" ] \in sd_files

\* C4: the frame loop exits at the first evaluation at or after the start
\* time, and from every point of a countdown a new fetch request follows.
ExpiryLeadsToFetch ==
  /\ InCountdown ~> (pc = "fetching")
  /\ [][ (pc = "cd_check" /\ now >= session.launch_time) => pc' = "idle" ]_vars

\* C4 witness: a request in flight after a countdown that drew frames.
FetchAfterCountdown ==
  /\ pc = "fetching"
  /\ fetches >= 2
  /\ view.remaining_seconds >= 1
  /\ session.tag = "none"

\* C5: the fields of a frame rebuild the remaining time, each in its range.
ReconstructionIdentity ==
  view.remaining_seconds >= 0 =>
    /\ view.days * 86400 + view.hours * 3600 + view.minutes * 60 + view.seconds
         = view.remaining_seconds
    /\ view.hours \in 0 .. 23
    /\ view.minutes \in 0 .. 59
    /\ view.seconds \in 0 .. 59
    /\ view.days >= 0
    /\ session.tag = "session" => view.remaining_seconds = session.launch_time - view.now

\* C5 witness: a frame one day, one hour, one minute and one second ahead.
FrameOfEveryField ==
  /\ view.remaining_seconds = 90061
  /\ view.days = 1 /\ view.hours = 1 /\ view.minutes = 1 /\ view.seconds = 1

\* C6: a frame drives every zone in the WARNING regime exactly when its
\* remaining time is below 1800 s, and in the AMBIENT regime otherwise.
RegimeThreshold ==
  view.remaining_seconds >= 0 =>
    \A i \in Zones :
      /\ leds[i].mode = "WARNING" <=> view.remaining_seconds < 1800
      /\ leds[i].mode = "AMBIENT" <=> view.remaining_seconds >= 1800

\* C6 witness: the frame at exactly 1800 s, in the AMBIENT regime.
FrameAtThreshold ==
  /\ view.remaining_seconds = 1800
  /\ \A i \in Zones : leds[i].mode = "AMBIENT"

\* The frame 4 s into a session whose event starts 5 s after it began.
FrameAtFourOfFive ==
  /\ session.tag = "session"
  /\ session.launch_time = session.began + 5
  /\ view.remaining_seconds = 1
  /\ view.now = session.began + 4

\* C7, as stated: that frame is in the AMBIENT regime.
ShortCountdownAmbient ==
  FrameAtFourOfFive => \A i \in Zones : leds[i].mode = "AMBIENT"

\* C7, amended: that frame (remaining 1 s, below the threshold) is in the
\* WARNING regime.
ShortCountdownWarning ==
  FrameAtFourOfFive => \A i \in Zones : leds[i].mode = "WARNING"

\* C7 witness: the frame has been drawn.
ShortCountdownFrameDrawn ==
  /\ FrameAtFourOfFive
  /\ pc = "cd_check"
  /\ screen.countdown # << >>

\* C8: when the next fetch request is made, the images of earlier sessions
\* have been removed from storage.
ImagesDiscardedBeforeFetch ==
  (pc = "fetching" /\ sd_mounted) => sd_files = { }

\* C9: whatever the download and the decode do, the session goes on: the
\* static launch info of the record is drawn and the frame loop is entered.
ImageFailureKeepsSession ==
  [][ /\ pc = "download" => (pc' = "final_ui" /\ session' = session)
      /\ pc = "final_ui" =>
           /\ pc' = "cd_check"
           /\ session' = session
           /\ screen'.info.tag = "info"
           /\ screen'.info.name = session.name
           /\ screen'.info.date = session.date
           /\ screen'.info.provider = session.provider ]_vars

\* C9 witness: a frame loop running without background although an image
\* was downloaded (the decode failed or the format is unsupported).
SessionWithoutBackground ==
  /\ pc = "cd_frame"
  /\ img_path.tag = "path"
  /\ screen.bg.tag = "None"
  /\ screen.info.tag = "info"
  /\ screen.info.name = session.name

LerpEndpointsExact ==
  (probe.tag = "lerp_color" /\ probe.out # << >>) =>
    /\ probe.t = F32(0, 0) => probe.out = probe.c1
    /\ probe.t = F32(1, 0) => probe.out = probe.c2

\* C11 witness: lerp_color has returned the second colour, different from
\* the first in every channel, for t = 1.
LerpReachedSecondColor ==
  /\ probe.tag = "lerp_color"
  /\ probe.t = F32(1, 0)
  /\ probe.c1 = << 148, 0, 211 >>
  /\ probe.c2 = << 1, 254, 128 >>
  /\ probe.out = << 1, 254, 128 >>

\* C12: a PNG of w x h decoded at scale 2 is placed at
\* ((480 - 2w) div 2, (480 - 2h) div 2), (140, 140) for 100 x 100; a JPEG at
\* ((480 - w) div 2, (480 - h) div 2).
CenteringUsesScaledSize ==
  /\ (probe.tag = "png" /\ probe.out # << >>) =>
       /\ probe.out = << (480 - 2 * probe.w) \div 2, (480 - 2 * probe.h) \div 2 >>
       /\ (probe.w = 100 /\ probe.h = 100) => probe.out = << 140, 140 >>
  /\ (probe.tag = "jpeg" /\ probe.out # << >>) =>
       probe.out = << (480 - probe.w) \div 2, (480 - probe.h) \div 2 >>

\* C12 witness: the origin of a 100 x 100 PNG has been computed.
PngOfHundredCentered ==
  /\ probe.tag = "png"
  /\ probe.w = 100 /\ probe.h = 100
  /\ probe.out = << 140, 140 >>

\* C13: from the first frame of a session to the exit of display_countdown
\* no step clears the screen, decodes a background, draws the static launch
\* info, fetches or downloads; a frame does exactly the rectangle fill, the
\* countdown text, the LED update, one present and one sleep, and leaves
\* the background and the static text as they were.
FrameLoopTouchesOnlyCountdown ==
  [][ (InCountdown /\ InCountdown') =>
        /\ effects' \cap { "clear", "decode", "static_text", "fetch", "download", "terminal" } = { }
        /\ pc = "cd_frame" =>
             effects' = { "rectangle", "countdown_text", "leds", "present", "sleep" }
        /\ pc = "cd_check" => effects' = { }
        /\ screen'.bg = screen.bg
        /\ screen'.info = screen.info
        /\ screen'.terminal = screen.terminal
        /\ sd_files' = sd_files
        /\ fetches' = fetches ]_vars

\* C13 witness: the second frame of a session has been drawn over a decoded
\* background and the static launch info.
SecondFrameOverBackground ==
  /\ pc = "cd_check"
  /\ effects = { "rectangle", "countdown_text", "leds", "present", "sleep" }
  /\ screen.bg.tag = "path"
  /\ screen.info.tag = "info"
  /\ session.tag = "session"
  /\ view.now > session.began
  /\ screen.countdown # << >>

\* C14: every frame that draws countdown digits is computed from
\* remaining_seconds >= 1, also when the clock advances between the read of
\* the loop condition and the read of the remaining time; a session whose
\* event time has passed when it starts draws no countdown frame.
CountdownNeverAtOrBelowZero ==
  /\ [] ( screen.countdown # << >> =>
            (view.remaining_seconds >= 1 /\ screen.countdown = view.digits) )
  /\ [] ( (session.tag = "session" /\ session.launch_time <= session.began) =>
            screen.countdown = << >> )
  /\ [][ view' # view =>
           /\ view'.remaining_seconds >= 1
           /\ view'.remaining_seconds = session.launch_time - view'.now
           /\ screen'.countdown = view'.digits ]_vars

\* C14 witness: the loop was left by the test of line 534, the clock having
\* reached the event time after the loop condition was read; the last frame
\* drawn showed 2 s.
ExitOnLateClock ==
  /\ pc = "idle"
  /\ idle_i = 0
  /\ slip = 1
  /\ session.tag = "none"
  /\ view.remaining_seconds = 2
  /\ now = view.now + 2
  /\ screen.countdown = view.digits

\* C15: on every frame the width by which the layout advances past a
\* numeric field equals the width of the text drawn for that field, also
\* when days >= 100 and the days field has three digits.
LayoutWidthsMatchDrawn ==
  view.remaining_seconds >= 0 =>
    \A k \in 1 .. 4 : view.widths[k] = view.digits[k]

\* C16: on every AMBIENT tick, in the session frame loop as in the idle
\* wait, the colour of zone i (before the brightness factor of the idle
\* path) is the linear interpolation between its palette stop and the next
\* stop at the fractional part of the phase.
AmbientBlendsBetweenStops ==
  \A i \in Zones :
    leds[i].mode \in { "AMBIENT", "IDLE" } =>
      ZoneBase(i) = lerp_color(Stop(leds[i].stop), Stop(NextIndex(leds[i].stop)),
                                ZoneAlpha(i))

\* C17: on every frame with remaining_seconds < 1800 all 7 zones receive
\* the same colour; its green and blue channels are 0 and its red channel
\* is int(100 + 100 sin(pulse_step)), whatever the zone and the palette.
WarningZonesIdentical ==
  /\ [] ( \A i \in Zones :
            leds[i].mode = "WARNING" =>
              /\ ZoneColor(i) = ZoneColor(0)
              /\ ZoneColor(i)[2] = 0 /\ ZoneColor(i)[3] = 0
              /\ ZoneColor(i)[1] \in 0 .. 200 )
  /\ [][ (pc = "cd_frame" /\ view' # view) =>
           \A i \in Zones :
             /\ leds'[i].mode = "WARNING" <=> view'.remaining_seconds < 1800
             /\ view'.remaining_seconds < 1800 =>
                  ZoneColor(i)' = << RedIntensity(pulse_step), 0, 0 >> ]_vars

\* C17 witness: a WARNING frame near the crest of the pulse (the sine is
\* above 0.9), every zone at the same red.
WarningPulseAtCrest ==
  /\ pc = "cd_check"
  /\ view.remaining_seconds < 1800
  /\ pulse_step.w >= 1
  /\ \A i \in Zones : leds[i].mode = "WARNING" /\ ZoneColor(i) = ZoneColor(0)
  /\ ZoneColor(0)[1] >= 190

\* C18: the first update puts zone i at palette stop i mod 7, and after any
\* number of AMBIENT or idle ticks the stop of zone i is (stop of zone 0 +
\* i) mod 7, so the 7 zones are at 7 different stops.  (It holds for the
\* runs of SpecLong and SpecOffline; SpecAged reaches a tick where it fails.)
ZonesFormTravellingGradient ==
  leds[0].mode \in { "AMBIENT", "IDLE" } =>
    /\ \A i \in Zones : leds[i].stop = (leds[0].stop + i) % 7
    /\ \A i, j \in Zones : i # j => leds[i].stop # leds[j].stop
    /\ ticks = 1 => \A i \in Zones : leds[i].stop = i % 7

\* C19: once a frame of a session has been evaluated as WARNING, every
\* later frame of that session is WARNING, its remaining time smaller;
\* AMBIENT reappears only after the countdown loop has exited.
RegimeNeverFlipsBack ==
  /\ [][ ( /\ InCountdown /\ InCountdown'
           /\ session.tag = "session"
           /\ view.now >= session.began
           /\ view.remaining_seconds < 1800
           /\ \A i \in Zones : leds[i].mode = "WARNING" )
         => /\ \A i \in Zones : leds'[i].mode = "WARNING"
            /\ view'.remaining_seconds <= view.remaining_seconds
            /\ view' # view => view'.remaining_seconds < view.remaining_seconds ]_vars
  /\ [] ( ( /\ InCountdown
            /\ session.tag = "session"
            /\ view.now >= session.began
            /\ view.remaining_seconds < 1800 )
          => \A i \in Zones : leds[i].mode = "WARNING" )

\* C19 witness: a session that began in the AMBIENT regime, 1805 s ahead,
\* and has since drawn several WARNING frames.
WarningAfterAmbientInSession ==
  /\ pc = "cd_check"
  /\ session.tag = "session"
  /\ session.launch_time = session.began + 1805
  /\ view.now >= session.began + 9
  /\ view.remaining_seconds < 1797
  /\ \A i \in Zones : leds[i].mode = "WARNING"

\* C20: every channel given to set_rgb is an integer in 0..255, in the idle
\* animation, in the AMBIENT regime and in the WARNING regime; the
\* brightness factor stays within [0, 1] and the red pulse within 0..200.
ChannelsInRange ==
  /\ [] ( \A i \in Zones : \A k \in 1 .. 3 :
            /\ ZoneColor(i)[k] \in 0 .. 255
            /\ leds[i].mode = "WARNING" => ZoneColor(i)[k] \in 0 .. 200
            /\ leds[i].mode = "IDLE" => ZoneColor(i)[k] <= ZoneBase(i)[k] )
  /\ [][ ticks' = ticks + 1 =>
           \A i \in Zones : Brightness(nebula_step, i) \in 0 .. 2000 ]_vars
  /\ [][ (pc = "cd_frame" /\ view' # view) => RedIntensity(pulse_step) \in 0 .. 200 ]_vars

\* C20 witness: an idle update with one zone dimmed to black and another
\* at nearly its full colour.
IdleDimmedAndBright ==
  \E i, j \in Zones :
    /\ leds[i].mode = "IDLE"
    /\ ZoneBase(i)[3] >= 100 /\ ZoneColor(i)[3] <= 1
    /\ ZoneBase(j)[3] >= 100 /\ ZoneColor(j)[3] * 10 >= ZoneBase(j)[3] * 9

PhasesAreDisjoint ==
  /\ [][ (pc = "cd_frame" /\ pc' = "cd_check") =>
           IF view'.remaining_seconds < 1800
           THEN /\ pulse_step' = F32Add(pulse_step, pulse_speed)
                /\ pulse_step' # pulse_step
                /\ nebula_step' = nebula_step
           ELSE /\ nebula_step' = F32Add(nebula_step, nebula_speed)
                /\ nebula_step' # nebula_step
                /\ pulse_step' = pulse_step ]_vars
  /\ [][ (pc = "final_ui" /\ pc' = "cd_check") =>
           pulse_step' = F32Zero /\ nebula_step' = nebula_step ]_vars
  /\ [][ pc \notin { "cd_frame", "final_ui" } => pulse_step' = pulse_step ]_vars

\* C22 witness: the second session at its start, after a first session that
\* ended on WARNING frames and an idle wait: the pulse is at 0 again and the
\* nebula phase has gone on.
SecondSessionPulseAtZero ==
  /\ pc = "cd_check"
  /\ session.tag = "session"
  /\ fetches = 2
  /\ view.remaining_seconds \in 1 .. 1799
  /\ leds[0].mode = "IDLE"
  /\ pulse_step = F32Zero
  /\ nebula_step.w >= 2

\* C23: once TERMINAL_MODE is False it stays False; from then on no step
\* appends to BOOT_LOG, draws the terminal or puts it back on the screen,
\* and the only steps that clear the display are those with a clear of
\* their own (fetch_and_process_launch, display_background); and whenever
\* the terminal is drawn BOOT_LOG holds between 1 and 8 lines.
TerminalNeverComesBack ==
  /\ [][ ~ TERMINAL_MODE =>
           /\ ~ TERMINAL_MODE'
           /\ BOOT_LOG' \in { BOOT_LOG, << >> }
           /\ "terminal" \notin effects'
           /\ ~ screen.terminal => ~ screen'.terminal
           /\ pc \notin { "process", "final_ui" } => "clear" \notin effects' ]_vars
  /\ [] ( Len(BOOT_LOG) <= 8 )
  /\ [] ( "terminal" \in effects => (screen.terminal /\ Len(BOOT_LOG) \in 1 .. 8) )

\* C23 witness: a fetch that fails after a session has run: the flag is
\* off, nothing was drawn and the last countdown is still on the screen.
LaterFailureOnlyPrints ==
  /\ pc = "idle"
  /\ idle_i = 0
  /\ fetches >= 2
  /\ fetched = None
  /\ ~ TERMINAL_MODE
  /\ effects = { }
  /\ BOOT_LOG = << >>
  /\ ~ screen.terminal
  /\ screen.countdown # << >>

=============================================================================
